---- MODULE Spec2Model ----
(***************************************************************************)
(* Model of src/src/common/time.rs: the nanosecond and 90 kHz time types   *)
(* (UnixNano, Duration, UnixH264, DurationH264) and nano_to_timescale.     *)
(*                                                                         *)
(* Every value of the program is a Rust i64 (or u32 / i32).  TLC's own     *)
(* integers are 32 bits wide, so a 64-bit value is carried as a sign and a *)
(* magnitude written in limbs of four decimal digits, least significant    *)
(* limb first; the Mag* and Z* operators below are exact integer           *)
(* arithmetic on that representation, and Wrap64 / InI64 give the i64      *)
(* width back.                                                             *)
(***************************************************************************)
EXTENDS Integers, Sequences, FiniteSets, TLC

\* The radix of one limb of a magnitude.
Base == 10 ^ 4

----------------------------------------------------------------------------
(* Magnitudes: sequences over 0..Base-1, least significant limb first, no   *)
(* most-significant zero limb; <<>> is zero.                                *)

Limb(m, i) == IF i <= Len(m) THEN m[i] ELSE 0

RECURSIVE MagTrim(_)
MagTrim(m) ==
    IF m = <<>> \/ m[Len(m)] # 0 THEN m ELSE MagTrim(SubSeq(m, 1, Len(m) - 1))

RECURSIVE MagCmpAt(_, _, _)
MagCmpAt(a, b, i) ==
    IF i = 0 THEN 0
    ELSE IF a[i] < b[i] THEN -1
    ELSE IF a[i] > b[i] THEN 1
    ELSE MagCmpAt(a, b, i - 1)

\* -1, 0 or 1 as a < b, a = b, a > b.
MagCmp(a, b) ==
    IF Len(a) < Len(b) THEN -1
    ELSE IF Len(a) > Len(b) THEN 1
    ELSE MagCmpAt(a, b, Len(a))

RECURSIVE MagAddFrom(_, _, _, _)
MagAddFrom(a, b, i, c) ==
    IF i > Len(a) /\ i > Len(b)
    THEN IF c = 0 THEN <<>> ELSE <<c>>
    ELSE LET s == Limb(a, i) + Limb(b, i) + c
         IN  <<s % Base>> \o MagAddFrom(a, b, i + 1, s \div Base)

MagAdd(a, b) == MagAddFrom(a, b, 1, 0)

RECURSIVE MagSubFrom(_, _, _, _)
MagSubFrom(a, b, i, br) ==
    IF i > Len(a) THEN <<>>
    ELSE LET d == a[i] - Limb(b, i) - br
         IN  <<d % Base>> \o MagSubFrom(a, b, i + 1, IF d < 0 THEN 1 ELSE 0)

\* a - b, for a >= b.
MagSub(a, b) == MagTrim(MagSubFrom(a, b, 1, 0))

RECURSIVE MagMulSmallFrom(_, _, _, _)
MagMulSmallFrom(a, k, i, c) ==
    IF i > Len(a)
    THEN IF c = 0 THEN <<>> ELSE <<c>>
    ELSE LET p == a[i] * k + c
         IN  <<p % Base>> \o MagMulSmallFrom(a, k, i + 1, p \div Base)

\* a * k, for one limb k in 0..Base-1.
MagMulSmall(a, k) == MagTrim(MagMulSmallFrom(a, k, 1, 0))

\* a * Base
MagShift(a) == IF a = <<>> THEN <<>> ELSE <<0>> \o a

RECURSIVE MagMulFrom(_, _, _)
MagMulFrom(a, b, j) ==
    IF j > Len(b) THEN <<>>
    ELSE MagAdd(MagMulSmall(a, b[j]), MagShift(MagMulFrom(a, b, j + 1)))

MagMul(a, b) == MagMulFrom(a, b, 1)

\* The largest d in lo..hi with d * b <= cur (there is one: lo * b <= cur).
RECURSIVE QuotDigit(_, _, _, _)
QuotDigit(cur, b, lo, hi) ==
    IF lo = hi THEN lo
    ELSE LET mid == (lo + hi + 1) \div 2
         IN  IF MagCmp(MagMulSmall(b, mid), cur) <= 0
             THEN QuotDigit(cur, b, mid, hi)
             ELSE QuotDigit(cur, b, lo, mid - 1)

\* Long division of the limbs i..Len(a) of a by b # 0: quotient and remainder.
RECURSIVE MagDivModFrom(_, _, _)
MagDivModFrom(a, b, i) ==
    IF i > Len(a) THEN [q |-> <<>>, r |-> <<>>]
    ELSE LET hi  == MagDivModFrom(a, b, i + 1)
             cur == MagTrim(<<a[i]>> \o hi.r)
             d   == QuotDigit(cur, b, 0, Base - 1)
         IN  [q |-> MagTrim(<<d>> \o hi.q),
              r |-> MagSub(cur, MagMulSmall(b, d))]

MagDivMod(a, b) == MagDivModFrom(a, b, 1)

RECURSIVE MagOfNat(_)
MagOfNat(n) == IF n = 0 THEN <<>> ELSE <<n % Base>> \o MagOfNat(n \div Base)

----------------------------------------------------------------------------
(* Signed integers of any size: [neg, mag], zero never negative.            *)

ZNorm(neg, mag) == [neg |-> neg /\ mag # <<>>, mag |-> mag]

\* A TLC integer as a signed integer.
Z(n) == IF n < 0 THEN ZNorm(TRUE, MagOfNat(0 - n)) ELSE ZNorm(FALSE, MagOfNat(n))

RECURSIVE MagOfGroups(_)
MagOfGroups(g) ==
    IF g = <<>> THEN <<>> ELSE <<g[Len(g)]>> \o MagOfGroups(SubSeq(g, 1, Len(g) - 1))

\* A literal written as its groups of four decimal digits, most significant
\* first: ZLit(<<1, 0000, 0000>>) is 10^8.
ZLit(g) == ZNorm(FALSE, MagTrim(MagOfGroups(g)))

ZNeg(a) == ZNorm(~a.neg, a.mag)

ZAdd(a, b) ==
    IF a.neg = b.neg THEN ZNorm(a.neg, MagAdd(a.mag, b.mag))
    ELSE IF MagCmp(a.mag, b.mag) >= 0 THEN ZNorm(a.neg, MagSub(a.mag, b.mag))
    ELSE ZNorm(b.neg, MagSub(b.mag, a.mag))

ZSub(a, b) == ZAdd(a, ZNeg(b))

ZMul(a, b) == ZNorm(a.neg # b.neg, MagMul(a.mag, b.mag))

\* Quotient rounded toward zero and the remainder with the dividend's sign,
\* as Rust's / and % on integers; b # 0.
ZQuot(a, b) == ZNorm(a.neg # b.neg, MagDivMod(a.mag, b.mag).q)

ZRem(a, b) == ZNorm(a.neg, MagDivMod(a.mag, b.mag).r)

\* The remainder in 0..m-1, for m > 0.
ZModE(a, m) == LET r == ZRem(a, m) IN IF r.neg THEN ZAdd(r, m) ELSE r

ZCmp(a, b) ==
    IF a.neg # b.neg THEN (IF a.neg THEN -1 ELSE 1)
    ELSE IF a.neg THEN MagCmp(b.mag, a.mag)
    ELSE MagCmp(a.mag, b.mag)

ZLt(a, b) == ZCmp(a, b) < 0
ZLe(a, b) == ZCmp(a, b) <= 0
ZAbs(a) == ZNorm(FALSE, a.mag)

----------------------------------------------------------------------------
(* The integer types of the program.                                        *)

I64_MAX == ZLit(<<922, 3372, 0368, 5477, 5807>>)
I64_MIN == ZNeg(ZLit(<<922, 3372, 0368, 5477, 5808>>))
I32_MAX == ZLit(<<21, 4748, 3647>>)
I32_MIN == ZNeg(ZLit(<<21, 4748, 3648>>))
U32_MAX == ZLit(<<42, 9496, 7295>>)
TwoPow32 == ZLit(<<42, 9496, 7296>>)
TwoPow63 == ZLit(<<922, 3372, 0368, 5477, 5808>>)
TwoPow64 == ZLit(<<1844, 6744, 0737, 0955, 1616>>)

InI64(z) == ZLe(I64_MIN, z) /\ ZLe(z, I64_MAX)
InI32(z) == ZLe(I32_MIN, z) /\ ZLe(z, I32_MAX)
InU32(z) == ZLe(Z(0), z) /\ ZLe(z, U32_MAX)

\* The i64 that keeps the low 64 bits of z (two's complement).
Wrap64(z) == ZSub(ZModE(ZAdd(z, TwoPow63), TwoPow64), TwoPow63)

\* `z as u32`: the low 32 bits of z, read unsigned.
CastU32(z) == ZModE(z, TwoPow32)

\* `z as i32`: the low 32 bits of z, read signed.
CastI32(z) ==
    LET u == ZModE(z, TwoPow32) IN IF ZLe(u, I32_MAX) THEN u ELSE ZSub(u, TwoPow32)

\* The i64 operators + and *: the value a build without overflow checks
\* computes (wrapping), and whether the exact result left the i64 range (a
\* build with overflow checks panics there).
i64_add(a, b) == LET s == ZAdd(a, b) IN [val |-> Wrap64(s), ovf |-> ~InI64(s)]
i64_mul(a, b) == LET p == ZMul(a, b) IN [val |-> Wrap64(p), ovf |-> ~InI64(p)]

\* Results: Option, Result, a plain value, a panic.
None == [kind |-> "None"]
Some(v) == [kind |-> "Some", val |-> v]
Err == [kind |-> "Err"]
Ok(v) == [kind |-> "Ok", val |-> v]
Panic == [kind |-> "Panic"]
Value(v) == [kind |-> "Value", val |-> v]

\* i64::checked_add, checked_sub, checked_mul, checked_div, checked_rem.
i64_checked_add(a, b) == LET s == ZAdd(a, b) IN IF InI64(s) THEN Some(s) ELSE None
i64_checked_sub(a, b) == LET d == ZSub(a, b) IN IF InI64(d) THEN Some(d) ELSE None
i64_checked_mul(a, b) == LET p == ZMul(a, b) IN IF InI64(p) THEN Some(p) ELSE None
i64_checked_div(a, b) ==
    IF b = Z(0) \/ (a = I64_MIN /\ b = Z(-1)) THEN None ELSE Some(ZQuot(a, b))
i64_checked_rem(a, b) ==
    IF b = Z(0) \/ (a = I64_MIN /\ b = Z(-1)) THEN None ELSE Some(ZRem(a, b))

----------------------------------------------------------------------------
(* Constants of time.rs.                                                    *)

NANOSECOND == Z(1)
MICROSECOND == ZMul(NANOSECOND, Z(1000))
MILLISECOND == ZMul(MICROSECOND, Z(1000))
SECOND == ZMul(MILLISECOND, Z(1000))
MINUTE == ZMul(SECOND, Z(60))
HOUR == ZMul(MINUTE, Z(60))

\* The number of time units that pass per second (a u32).
H264_TIMESCALE == 90000
H264_SECOND == Z(H264_TIMESCALE)

----------------------------------------------------------------------------
(* nano_to_timescale: a value in nanoseconds in a different timescale.      *)

\* As nano_to_timescale, but multiplying before dividing.
nano_to_timescale_direct(value, timescale) ==
    LET product == i64_mul(value, timescale)
    IN  [val |-> ZQuot(product.val, SECOND), ovf |-> product.ovf]

\* As nano_to_timescale, but splitting with the quotient rounded down and the
\* remainder never negative (div_euclid, rem_euclid).
nano_to_timescale_floor(value, timescale) ==
    LET dec  == ZModE(value, SECOND)
        secs == ZQuot(ZSub(value, dec), SECOND)
        whole == i64_mul(secs, timescale)
        part  == i64_mul(dec, timescale)
        sum   == i64_add(whole.val, ZQuot(part.val, SECOND))
    IN  [val |-> sum.val, ovf |-> whole.ovf \/ part.ovf \/ sum.ovf]

nano_to_timescale(value, timescale) ==
    LET secs == ZQuot(value, SECOND)
        dec  == ZRem(value, SECOND)
        whole == i64_mul(secs, timescale)
        part  == i64_mul(dec, timescale)
        sum   == i64_add(whole.val, ZQuot(part.val, SECOND))
    IN  [val |-> sum.val, ovf |-> whole.ovf \/ part.ovf \/ sum.ovf]

----------------------------------------------------------------------------
(* UnixNano: nanoseconds since the Unix epoch.                              *)

UnixNano_add_duration(self, duration) == i64_checked_add(self, duration)
UnixNano_sub_duration(self, duration) == i64_checked_sub(self, duration)
\* As UnixNano_after, but with >= for >.
UnixNano_after_or_equal(self, other) == ZCmp(self, other) >= 0
UnixNano_after(self, other) == ZCmp(self, other) > 0
UnixNano_before(self, other) == ZCmp(self, other) < 0
UnixNano_sub(self, u) == i64_checked_sub(self, u)

\* The (seconds, nanoseconds) pair as_chrono hands to
\* NaiveDateTime::from_timestamp_opt.
UnixNano_as_chrono(self) ==
    LET sec == ZQuot(self, SECOND)
        nanosec == ZRem(self, SECOND)
    IN  [sec |-> sec, nsec |-> CastU32(nanosec)]

----------------------------------------------------------------------------
(* Duration: a span of nanoseconds.                                         *)

Duration_from_millis(millis) == i64_mul(millis, MILLISECOND)
Duration_from_secs(secs) == i64_mul(secs, SECOND)
Duration_from_minutes(minutes) == i64_mul(minutes, MINUTE)
Duration_from_hours(hours) == i64_mul(hours, HOUR)

Duration_as_h264(self) == nano_to_timescale(self, Z(H264_TIMESCALE))

----------------------------------------------------------------------------
(* UnixH264: 90 kHz time since the Unix epoch.                              *)

UnixH264_checked_add_duration(self, duration) == i64_checked_add(self, duration)
UnixH264_checked_sub_duration(self, duration) == i64_checked_sub(self, duration)
UnixH264_checked_sub(self, other) == i64_checked_sub(self, other)
UnixH264_after(self, other) == ZCmp(self, other) > 0

\* As UnixH264_as_nanos, but multiplying before dividing.
UnixH264_as_nanos_direct(self) ==
    LET product == i64_mul(self, SECOND)
    IN  [val |-> ZQuot(product.val, Z(H264_TIMESCALE)), ovf |-> product.ovf]

UnixH264_as_nanos(self) ==
    LET clock_rate == Z(H264_TIMESCALE)
        secs == ZQuot(self, clock_rate)
        dec  == ZRem(self, clock_rate)
        whole == i64_mul(secs, SECOND)
        part  == i64_mul(dec, SECOND)
        sum   == i64_add(whole.val, ZQuot(part.val, clock_rate))
    IN  [val |-> sum.val, ovf |-> whole.ovf \/ part.ovf \/ sum.ovf]

UnixH264_as_chrono(self) ==
    LET nanos == UnixH264_as_nanos(self)
        sec == ZQuot(nanos.val, SECOND)
        nanosec == ZRem(nanos.val, SECOND)
    IN  [sec |-> sec, nsec |-> CastU32(nanosec), nanos |-> nanos.val,
         ovf |-> nanos.ovf]

----------------------------------------------------------------------------
(* DurationH264: a span of 90 kHz ticks.                                    *)

DurationH264_checked_add(self, rhs) == i64_checked_add(self, rhs)
DurationH264_checked_sub(self, rhs) == i64_checked_sub(self, rhs)
\* As DurationH264_checked_mul, but with wrapping_mul for checked_mul.
DurationH264_wrapping_mul(self, rhs) == Some(i64_mul(self, rhs).val)
DurationH264_checked_mul(self, rhs) == i64_checked_mul(self, rhs)
DurationH264_checked_div(self, rhs) == i64_checked_div(self, rhs)
DurationH264_checked_rem(self, rhs) == i64_checked_rem(self, rhs)

\* As DurationH264_as_i32, but with the cast `self.0 as i32` for try_from.
DurationH264_as_i32_cast(self) == Ok(CastI32(self))

\* i32::try_from(self.0), u32::try_from(self.0)
DurationH264_as_i32(self) == IF InI32(self) THEN Ok(CastI32(self)) ELSE Err
DurationH264_as_u32(self) == IF InU32(self) THEN Ok(CastU32(self)) ELSE Err

\* As DurationH264_as_nanos, but dividing SECOND by the clock rate before
\* multiplying the remainder.
DurationH264_as_nanos_scaled(self) ==
    LET clock_rate == Z(H264_TIMESCALE)
        secs == ZQuot(self, clock_rate)
        dec  == ZRem(self, clock_rate)
        whole == i64_mul(secs, SECOND)
        part  == i64_mul(dec, ZQuot(SECOND, clock_rate))
        sum   == i64_add(whole.val, part.val)
    IN  [val |-> sum.val, ovf |-> whole.ovf \/ part.ovf \/ sum.ovf]

DurationH264_as_nanos(self) ==
    LET clock_rate == Z(H264_TIMESCALE)
        secs == ZQuot(self, clock_rate)
        dec  == ZRem(self, clock_rate)
        whole == i64_mul(secs, SECOND)
        part  == i64_mul(dec, SECOND)
        sum   == i64_add(whole.val, ZQuot(part.val, clock_rate))
    IN  [val |-> sum.val, ovf |-> whole.ovf \/ part.ovf \/ sum.ovf]

DurationH264_as_millis(self) ==
    LET nanos == DurationH264_as_nanos(self)
    IN  [val |-> ZQuot(nanos.val, MILLISECOND), ovf |-> nanos.ovf]

\* From<i32>, From<u32>: i64::from(v), the same number in 64 bits.
DurationH264_from_i32(v) == Wrap64(v)
DurationH264_from_u32(v) == Wrap64(v)

----------------------------------------------------------------------------
(* The calls.  The types hold no state of their own: a state of the model   *)
(* is a pair of arguments x, y (y is None for a call of one argument), the  *)
(* call op made on them ("init" before it is made), what it returned (ret), *)
(* whether an intermediate result of its arithmetic left the i64 range      *)
(* (ovf), and, when x is the value the call before returned, the argument   *)
(* of that call (src).                                                      *)

VARIABLES op, x, y, ret, ovf, src

vars == <<op, x, y, ret, ovf, src>>

\* How far around each anchor value the arguments are drawn.
Spread == 2

Near(anchors) ==
    {z \in {ZAdd(a, Z(d)) : a \in anchors, d \in (0 - Spread)..Spread} : InI64(z)}

\* The 90 kHz value of the largest nanosecond count: as_nanos fits up to it.
MaxTicks == ZLit(<<830, 1034, 8331, 6929>>)

FixtureIn ==
    << ZLit(<<10, 0000>>), ZLit(<<1, 0000, 0000>>), ZLit(<<1000, 0000, 0000>>),
       ZLit(<<100, 0000, 0000, 0000>>), ZLit(<<1000, 0000, 0000, 0000>>),
       ZLit(<<1, 0000, 0000, 0000, 0000>>), ZLit(<<10, 0000, 0000, 0000, 0000>>) >>
FixtureOut ==
    << Z(9), Z(9000), Z(9000000), ZLit(<<90, 0000, 0000>>),
       ZLit(<<900, 0000, 0000>>), ZLit(<<9000, 0000, 0000>>),
       ZLit(<<9, 0000, 0000, 0000>>) >>

FiveMinutes == ZMul(Z(300), SECOND)

NanoSamples ==
    Near({FixtureIn[i] : i \in 1..7}
         \cup {Z(0), SECOND, ZNeg(SECOND), FiveMinutes, ZNeg(FixtureIn[1]),
               ZNeg(FixtureIn[7]),
               I64_MAX, I64_MIN})

TimescaleSamples ==
    {Z(1), Z(1000), Z(48000), Z(H264_TIMESCALE), Z(999999), Z(1000000)}

TickSamples ==
    Near({Z(0), Z(90), H264_SECOND, Z(27000000), I32_MAX, I32_MIN, U32_MAX,
          MaxTicks, ZNeg(MaxTicks), FixtureIn[5], I64_MAX, I64_MIN})

OperandSamples ==
    Near({Z(0), ZLit(<<30, 3700, 0500>>), ZNeg(ZLit(<<30, 3700, 0500>>)),
          I64_MAX, I64_MIN})

\* u32 arguments: around 0, 1000, i64::MAX / HOUR, i64::MAX / MINUTE, u32::MAX.
U32Samples ==
    {z \in Near({Z(0), Z(1000), Z(2562047), Z(153722867), U32_MAX}) : InU32(z)}

I32Samples == {z \in Near({Z(0), I32_MAX, I32_MIN}) : InI32(z)}

Bool(b) == [kind |-> "Bool", val |-> b]
\* The arguments of NaiveDateTime::from_timestamp_opt.
Timestamp(r) == [kind |-> "Timestamp", sec |-> r.sec, nsec |-> r.nsec]

\* What a call of unchecked arithmetic gives: a panic where a result left
\* the i64 range and the build checks overflow, the wrapped value otherwise.
Outcome(r, overflow_checks) ==
    IF r.ovf /\ overflow_checks THEN Panic ELSE Value(r.val)

Init ==
    /\ op = "init"
    /\ \/ x \in NanoSamples /\ y \in TimescaleSamples
       \/ x \in OperandSamples /\ y \in OperandSamples
       \/ /\ x \in NanoSamples \cup TickSamples \cup U32Samples \cup I32Samples
          /\ y = None
    /\ ret = None
    /\ ovf = FALSE
    /\ src = None

\* The arguments of a call of two / of one argument, not yet used.
Fresh2 == op = "init" /\ y # None
Fresh1 == op = "init" /\ y = None

NanoToTimescale ==
    /\ Fresh2
    /\ x \in NanoSamples /\ y \in TimescaleSamples
    /\ \E r \in {nano_to_timescale(x, y)}, overflow_checks \in BOOLEAN :
            /\ op' = "nano_to_timescale"
            /\ ret' = Outcome(r, overflow_checks)
            /\ ovf' = r.ovf
            /\ UNCHANGED <<x, y, src>>

UnixNanoAddDuration ==
    /\ Fresh2
    /\ x \in OperandSamples /\ y \in OperandSamples
    /\ op' = "UnixNano::add_duration"
    /\ ret' = UnixNano_add_duration(x, y)
    /\ ovf' = FALSE
    /\ UNCHANGED <<x, y, src>>

UnixNanoSubDuration ==
    /\ Fresh2
    /\ x \in OperandSamples /\ y \in OperandSamples
    /\ op' = "UnixNano::sub_duration"
    /\ ret' = UnixNano_sub_duration(x, y)
    /\ ovf' = FALSE
    /\ UNCHANGED <<x, y, src>>

UnixNanoAfter ==
    /\ Fresh2
    /\ x \in OperandSamples /\ y \in OperandSamples
    /\ op' = "UnixNano::after"
    /\ ret' = Bool(UnixNano_after(x, y))
    /\ ovf' = FALSE
    /\ UNCHANGED <<x, y, src>>

UnixNanoBefore ==
    /\ Fresh2
    /\ x \in OperandSamples /\ y \in OperandSamples
    /\ op' = "UnixNano::before"
    /\ ret' = Bool(UnixNano_before(x, y))
    /\ ovf' = FALSE
    /\ UNCHANGED <<x, y, src>>

UnixNanoSub ==
    /\ Fresh2
    /\ x \in OperandSamples /\ y \in OperandSamples
    /\ op' = "UnixNano::sub"
    /\ ret' = UnixNano_sub(x, y)
    /\ ovf' = FALSE
    /\ UNCHANGED <<x, y, src>>

UnixNanoAsChrono ==
    /\ Fresh1
    /\ x \in NanoSamples
    /\ op' = "UnixNano::as_chrono"
    /\ ret' = Timestamp(UnixNano_as_chrono(x))
    /\ ovf' = FALSE
    /\ UNCHANGED <<x, y, src>>

DurationFromMillis ==
    /\ Fresh1
    /\ x \in U32Samples
    /\ \E r \in {Duration_from_millis(x)}, overflow_checks \in BOOLEAN :
            /\ op' = "Duration::from_millis"
            /\ ret' = Outcome(r, overflow_checks)
            /\ ovf' = r.ovf
            /\ UNCHANGED <<x, y, src>>

DurationFromSecs ==
    /\ Fresh1
    /\ x \in U32Samples
    /\ \E r \in {Duration_from_secs(x)}, overflow_checks \in BOOLEAN :
            /\ op' = "Duration::from_secs"
            /\ ret' = Outcome(r, overflow_checks)
            /\ ovf' = r.ovf
            /\ UNCHANGED <<x, y, src>>

DurationFromMinutes ==
    /\ Fresh1
    /\ x \in U32Samples
    /\ \E r \in {Duration_from_minutes(x)}, overflow_checks \in BOOLEAN :
            /\ op' = "Duration::from_minutes"
            /\ ret' = Outcome(r, overflow_checks)
            /\ ovf' = r.ovf
            /\ UNCHANGED <<x, y, src>>

DurationFromHours ==
    /\ Fresh1
    /\ x \in U32Samples
    /\ \E r \in {Duration_from_hours(x)}, overflow_checks \in BOOLEAN :
            /\ op' = "Duration::from_hours"
            /\ ret' = Outcome(r, overflow_checks)
            /\ ovf' = r.ovf
            /\ UNCHANGED <<x, y, src>>

DurationAsH264 ==
    /\ Fresh1
    /\ x \in NanoSamples
    /\ \E r \in {Duration_as_h264(x)}, overflow_checks \in BOOLEAN :
            /\ op' = "Duration::as_h264"
            /\ ret' = Outcome(r, overflow_checks)
            /\ ovf' = r.ovf
            /\ UNCHANGED <<x, y, src>>

UnixH264CheckedAddDuration ==
    /\ Fresh2
    /\ x \in OperandSamples /\ y \in OperandSamples
    /\ op' = "UnixH264::checked_add_duration"
    /\ ret' = UnixH264_checked_add_duration(x, y)
    /\ ovf' = FALSE
    /\ UNCHANGED <<x, y, src>>

UnixH264CheckedSubDuration ==
    /\ Fresh2
    /\ x \in OperandSamples /\ y \in OperandSamples
    /\ op' = "UnixH264::checked_sub_duration"
    /\ ret' = UnixH264_checked_sub_duration(x, y)
    /\ ovf' = FALSE
    /\ UNCHANGED <<x, y, src>>

UnixH264CheckedSub ==
    /\ Fresh2
    /\ x \in OperandSamples /\ y \in OperandSamples
    /\ op' = "UnixH264::checked_sub"
    /\ ret' = UnixH264_checked_sub(x, y)
    /\ ovf' = FALSE
    /\ UNCHANGED <<x, y, src>>

UnixH264AsNanos ==
    /\ Fresh1
    /\ x \in TickSamples
    /\ \E r \in {UnixH264_as_nanos(x)}, overflow_checks \in BOOLEAN :
            /\ op' = "UnixH264::as_nanos"
            /\ ret' = Outcome(r, overflow_checks)
            /\ ovf' = r.ovf
            /\ UNCHANGED <<x, y, src>>

UnixH264After ==
    /\ Fresh2
    /\ x \in OperandSamples /\ y \in OperandSamples
    /\ op' = "UnixH264::after"
    /\ ret' = Bool(UnixH264_after(x, y))
    /\ ovf' = FALSE
    /\ UNCHANGED <<x, y, src>>

UnixH264AsChrono ==
    /\ Fresh1
    /\ x \in TickSamples
    /\ \E r \in {UnixH264_as_chrono(x)}, overflow_checks \in BOOLEAN :
            /\ op' = "UnixH264::as_chrono"
            /\ ret' = IF r.ovf /\ overflow_checks THEN Panic ELSE Timestamp(r)
            /\ ovf' = r.ovf
            /\ UNCHANGED <<x, y, src>>

DurationH264CheckedAdd ==
    /\ Fresh2
    /\ x \in OperandSamples /\ y \in OperandSamples
    /\ op' = "DurationH264::checked_add"
    /\ ret' = DurationH264_checked_add(x, y)
    /\ ovf' = FALSE
    /\ UNCHANGED <<x, y, src>>

DurationH264CheckedSub ==
    /\ Fresh2
    /\ x \in OperandSamples /\ y \in OperandSamples
    /\ op' = "DurationH264::checked_sub"
    /\ ret' = DurationH264_checked_sub(x, y)
    /\ ovf' = FALSE
    /\ UNCHANGED <<x, y, src>>

DurationH264CheckedMul ==
    /\ Fresh2
    /\ x \in OperandSamples /\ y \in OperandSamples
    /\ op' = "DurationH264::checked_mul"
    /\ ret' = DurationH264_checked_mul(x, y)
    /\ ovf' = FALSE
    /\ UNCHANGED <<x, y, src>>

DurationH264CheckedDiv ==
    /\ Fresh2
    /\ x \in OperandSamples /\ y \in OperandSamples
    /\ op' = "DurationH264::checked_div"
    /\ ret' = DurationH264_checked_div(x, y)
    /\ ovf' = FALSE
    /\ UNCHANGED <<x, y, src>>

DurationH264CheckedRem ==
    /\ Fresh2
    /\ x \in OperandSamples /\ y \in OperandSamples
    /\ op' = "DurationH264::checked_rem"
    /\ ret' = DurationH264_checked_rem(x, y)
    /\ ovf' = FALSE
    /\ UNCHANGED <<x, y, src>>

DurationH264AsI32 ==
    /\ Fresh1
    /\ x \in TickSamples
    /\ op' = "DurationH264::as_i32"
    /\ ret' = DurationH264_as_i32(x)
    /\ ovf' = FALSE
    /\ UNCHANGED <<x, y, src>>

DurationH264AsU32 ==
    /\ Fresh1
    /\ x \in TickSamples
    /\ op' = "DurationH264::as_u32"
    /\ ret' = DurationH264_as_u32(x)
    /\ ovf' = FALSE
    /\ UNCHANGED <<x, y, src>>

DurationH264AsMillis ==
    /\ Fresh1
    /\ x \in TickSamples
    /\ \E r \in {DurationH264_as_millis(x)}, overflow_checks \in BOOLEAN :
            /\ op' = "DurationH264::as_millis"
            /\ ret' = Outcome(r, overflow_checks)
            /\ ovf' = r.ovf
            /\ UNCHANGED <<x, y, src>>

DurationH264AsNanos ==
    /\ Fresh1
    /\ x \in TickSamples
    /\ \E r \in {DurationH264_as_nanos(x)}, overflow_checks \in BOOLEAN :
            /\ op' = "DurationH264::as_nanos"
            /\ ret' = Outcome(r, overflow_checks)
            /\ ovf' = r.ovf
            /\ UNCHANGED <<x, y, src>>

\* The way back of the round trip: as_nanos of the span Duration::as_h264
\* has just returned.
DurationH264AsNanosOfAsH264 ==
    /\ op = "Duration::as_h264"
    /\ ret.kind = "Value"
    /\ \E r \in {DurationH264_as_nanos(ret.val)}, overflow_checks \in BOOLEAN :
            /\ op' = "DurationH264::as_nanos"
            /\ x' = ret.val
            /\ src' = Some(x)
            /\ ret' = Outcome(r, overflow_checks)
            /\ ovf' = r.ovf
            /\ UNCHANGED y

DurationH264FromI32 ==
    /\ Fresh1
    /\ x \in I32Samples
    /\ op' = "DurationH264::from(i32)"
    /\ ret' = Value(DurationH264_from_i32(x))
    /\ ovf' = FALSE
    /\ UNCHANGED <<x, y, src>>

\* Widening back the i32 that as_i32 has just returned.
DurationH264FromI32OfAsI32 ==
    /\ op = "DurationH264::as_i32"
    /\ ret.kind = "Ok"
    /\ op' = "DurationH264::from(i32)"
    /\ x' = ret.val
    /\ src' = Some(x)
    /\ ret' = Value(DurationH264_from_i32(ret.val))
    /\ ovf' = FALSE
    /\ UNCHANGED y

DurationH264FromU32 ==
    /\ Fresh1
    /\ x \in U32Samples
    /\ op' = "DurationH264::from(u32)"
    /\ ret' = Value(DurationH264_from_u32(x))
    /\ ovf' = FALSE
    /\ UNCHANGED <<x, y, src>>

\* Widening back the u32 that as_u32 has just returned.
DurationH264FromU32OfAsU32 ==
    /\ op = "DurationH264::as_u32"
    /\ ret.kind = "Ok"
    /\ op' = "DurationH264::from(u32)"
    /\ x' = ret.val
    /\ src' = Some(x)
    /\ ret' = Value(DurationH264_from_u32(ret.val))
    /\ ovf' = FALSE
    /\ UNCHANGED y

Next ==
    \/ NanoToTimescale
    \/ UnixNanoAddDuration
    \/ UnixNanoSubDuration
    \/ UnixNanoAfter
    \/ UnixNanoBefore
    \/ UnixNanoSub
    \/ UnixNanoAsChrono
    \/ DurationFromMillis
    \/ DurationFromSecs
    \/ DurationFromMinutes
    \/ DurationFromHours
    \/ DurationAsH264
    \/ UnixH264CheckedAddDuration
    \/ UnixH264CheckedSubDuration
    \/ UnixH264CheckedSub
    \/ UnixH264AsNanos
    \/ UnixH264After
    \/ UnixH264AsChrono
    \/ DurationH264CheckedAdd
    \/ DurationH264CheckedSub
    \/ DurationH264CheckedMul
    \/ DurationH264CheckedDiv
    \/ DurationH264CheckedRem
    \/ DurationH264AsI32
    \/ DurationH264AsU32
    \/ DurationH264AsMillis
    \/ DurationH264AsNanos
    \/ DurationH264AsNanosOfAsH264
    \/ DurationH264FromI32
    \/ DurationH264FromI32OfAsI32
    \/ DurationH264FromU32
    \/ DurationH264FromU32OfAsU32

Spec == Init /\ [][Next]_vars

----------------------------------------------------------------------------
(* Properties.                                                              *)

\* C1: for an i64 nanosecond count v and a timescale 1 <= ts <= 10^6,
\* nano_to_timescale(v, ts) returns v * ts / 10^9 rounded toward zero, none of
\* (v / 10^9) * ts, (v mod 10^9) * ts and their sum leaves the i64 range, and
\* the fixture table of the tests is reproduced at ts = 90000.
C1_NanoToTimescaleExact ==
    op = "nano_to_timescale" =>
        /\ ~ovf
        /\ ret = Value(ZQuot(ZMul(x, y), SECOND))
        /\ \A i \in 1..7 :
            (x = FixtureIn[i] /\ y = Z(H264_TIMESCALE)) => ret = Value(FixtureOut[i])

C1_Witness ==
    /\ op = "nano_to_timescale"
    /\ x = FixtureIn[7]
    /\ y = Z(H264_TIMESCALE)
    /\ ret = Value(FixtureOut[7])
    /\ ~ovf

\* C2: Duration::as_h264 of an i64 nanosecond value v, then
\* DurationH264::as_nanos of the result, gives n with |v - n| <= 11111, and
\* n = v when v is a multiple of 100000 ns (5 minutes -> 27000000 ticks ->
\* 5 minutes).
C2_RoundTrip ==
    /\ op = "Duration::as_h264" => ret.kind = "Value"
    /\ (op = "DurationH264::as_nanos" /\ src # None) =>
        /\ ret.kind = "Value"
        /\ ZLe(ZAbs(ZSub(src.val, ret.val)), Z(11111))
        /\ ZRem(src.val, Z(100000)) = Z(0) => ret.val = src.val

C2_Witness ==
    /\ op = "DurationH264::as_nanos"
    /\ src = Some(FiveMinutes)
    /\ x = Z(27000000)
    /\ ret = Value(FiveMinutes)

CheckedAdds ==
    {"UnixNano::add_duration", "UnixH264::checked_add_duration",
     "DurationH264::checked_add"}
CheckedSubs ==
    {"UnixNano::sub_duration", "UnixNano::sub", "UnixH264::checked_sub_duration",
     "UnixH264::checked_sub", "DurationH264::checked_sub"}
CheckedOps ==
    CheckedAdds \cup CheckedSubs
    \cup {"DurationH264::checked_mul", "DurationH264::checked_div",
          "DurationH264::checked_rem"}

\* The exact result of the checked operation op on x and y (y # 0 for a
\* division).
ExactResult ==
    IF op \in CheckedAdds THEN ZAdd(x, y)
    ELSE IF op \in CheckedSubs THEN ZSub(x, y)
    ELSE IF op = "DurationH264::checked_mul" THEN ZMul(x, y)
    ELSE IF op = "DurationH264::checked_div" THEN ZQuot(x, y)
    ELSE ZRem(x, y)

DivisionByZero ==
    op \in {"DurationH264::checked_div", "DurationH264::checked_rem"} /\ y = Z(0)

\* C3 as stated: every checked operation returns no result exactly when the
\* exact result is outside the i64 range or the divisor is zero, and the
\* exact result otherwise.
C3_NoneIffOutOfRange ==
    op \in CheckedOps =>
        IF DivisionByZero THEN ret = None
        ELSE IF InI64(ExactResult) THEN ret = Some(ExactResult)
        ELSE ret = None

\* C3, amended: as stated, except that checked_rem also returns no result
\* for i64::MIN rem -1, whose remainder 0 is in range but whose quotient is
\* not.
C3_NoneIffOverflow ==
    op \in CheckedOps =>
        IF DivisionByZero THEN ret = None
        ELSE IF op = "DurationH264::checked_rem" /\ x = I64_MIN /\ y = Z(-1)
        THEN ret = None
        ELSE IF InI64(ExactResult) THEN ret = Some(ExactResult)
        ELSE ret = None

C3_Witness ==
    /\ op = "DurationH264::checked_mul"
    /\ x = ZLit(<<30, 3700, 0500>>)
    /\ y = ZLit(<<30, 3700, 0500>>)
    /\ ret = None

\* C4: from_millis, from_secs, from_minutes and from_hours of a u32 n give
\* exactly n times 10^6, 10^9, 6 * 10^10 and 3.6 * 10^12 nanoseconds, with no
\* wraparound.
C4_FromUnitsExact ==
    /\ op = "Duration::from_millis" => ~ovf /\ ret = Value(ZMul(x, Z(1000000)))
    /\ op = "Duration::from_secs" => ~ovf /\ ret = Value(ZMul(x, ZLit(<<10, 0000, 0000>>)))
    /\ op = "Duration::from_minutes" =>
        ~ovf /\ ret = Value(ZMul(x, ZLit(<<600, 0000, 0000>>)))
    /\ op = "Duration::from_hours" =>
        ~ovf /\ ret = Value(ZMul(x, ZLit(<<3, 6000, 0000, 0000>>)))

\* C5: DurationH264::as_millis of an i64 tick count t returns t / 90 rounded
\* toward zero, with no intermediate result outside the i64 range.
C5_AsMillisExact ==
    op = "DurationH264::as_millis" => ~ovf /\ ret = Value(ZQuot(x, Z(90)))

\* C6: for a tick count t whose nanosecond value t * 10^9 / 90000, rounded
\* toward zero, is an i64, UnixH264::as_nanos and DurationH264::as_nanos
\* return that value, and none of (t / 90000) * 10^9, (t mod 90000) * 10^9 and
\* their sum overflows.
C6_AsNanosExact ==
    (/\ op \in {"UnixH264::as_nanos", "DurationH264::as_nanos"}
     /\ InI64(ZQuot(ZMul(x, SECOND), Z(90000)))) =>
        /\ ~ovf
        /\ ret = Value(ZQuot(ZMul(x, SECOND), Z(90000)))

C6_Witness ==
    /\ op = "UnixH264::as_nanos"
    /\ x = MaxTicks
    /\ ret = Value(ZLit(<<922, 3372, 0368, 5476, 6666>>))
    /\ ~ovf

\* C7: after and before are irreflexive, never both true, a.after(b) iff
\* b.before(a), and a result of the checked subtraction a - b is positive iff
\* a.after(b), negative iff a.before(b) (for UnixH264, which has no before:
\* iff b.after(a)), zero iff a = b.
C7_OrderingConsistent ==
    /\ op = "UnixNano::after" =>
        /\ x = y => ~ret.val
        /\ ~(ret.val /\ UnixNano_before(x, y))
        /\ ret.val <=> UnixNano_before(y, x)
        /\ UnixNano_sub(x, y) # None =>
            (ret.val <=> ZLt(Z(0), UnixNano_sub(x, y).val))
    /\ op = "UnixNano::before" =>
        /\ x = y => ~ret.val
        /\ ret.val <=> UnixNano_after(y, x)
        /\ UnixNano_sub(x, y) # None =>
            (ret.val <=> ZLt(UnixNano_sub(x, y).val, Z(0)))
    /\ (op = "UnixNano::sub" /\ ret # None) =>
        /\ ZLt(Z(0), ret.val) <=> UnixNano_after(x, y)
        /\ ZLt(ret.val, Z(0)) <=> UnixNano_before(x, y)
        /\ ret.val = Z(0) <=> x = y
    /\ op = "UnixH264::after" =>
        /\ x = y => ~ret.val
        /\ ~(ret.val /\ UnixH264_after(y, x))
        /\ UnixH264_checked_sub(x, y) # None =>
            (ret.val <=> ZLt(Z(0), UnixH264_checked_sub(x, y).val))
    /\ (op = "UnixH264::checked_sub" /\ ret # None) =>
        /\ ZLt(Z(0), ret.val) <=> UnixH264_after(x, y)
        /\ ZLt(ret.val, Z(0)) <=> UnixH264_after(y, x)
        /\ ret.val = Z(0) <=> x = y

C7_Witness ==
    /\ op = "UnixNano::sub"
    /\ x = I64_MIN
    /\ y = ZAdd(I64_MIN, Z(1))
    /\ ret = Some(Z(-1))

\* C8: as_i32 fails exactly outside [-2^31, 2^31 - 1] and as_u32 exactly
\* outside [0, 2^32 - 1]; a conversion that succeeds returns the tick count
\* itself, and From<i32> / From<u32> of it is the original DurationH264.
C8_Narrowing ==
    /\ op = "DurationH264::as_i32" =>
        /\ ret = Err <=> (ZLt(x, I32_MIN) \/ ZLt(I32_MAX, x))
        /\ ret # Err => ret = Ok(x)
    /\ op = "DurationH264::as_u32" =>
        /\ ret = Err <=> (ZLt(x, Z(0)) \/ ZLt(U32_MAX, x))
        /\ ret # Err => ret = Ok(x)
    /\ (op \in {"DurationH264::from(i32)", "DurationH264::from(u32)"} /\ src # None) =>
        ret = Value(src.val)

C8_Witness ==
    /\ op = "DurationH264::from(i32)"
    /\ src = Some(I32_MIN)
    /\ ret = Value(I32_MIN)

\* C9: the (seconds, nanoseconds) pair as_chrono hands to the calendar
\* library, the nanoseconds after their cast to u32, has
\* 0 <= nanoseconds < 10^9 and seconds * 10^9 + nanoseconds equal to the
\* UnixNano value (for UnixH264, to the nanosecond value of its ticks).
C9_TimestampSplit ==
    /\ op = "UnixNano::as_chrono" =>
        /\ ZLe(Z(0), ret.nsec) /\ ZLt(ret.nsec, SECOND)
        /\ ZAdd(ZMul(ret.sec, SECOND), ret.nsec) = x
    /\ (op = "UnixH264::as_chrono" /\ ~ovf) =>
        /\ ZLe(Z(0), ret.nsec) /\ ZLt(ret.nsec, SECOND)
        /\ ZAdd(ZMul(ret.sec, SECOND), ret.nsec) = UnixH264_as_nanos(x).val

\* C10: nanoseconds to 90 kHz ticks keeps order and sign: v1 <= v2 gives
\* nano_to_timescale(v1, 90000) <= nano_to_timescale(v2, 90000), and for v
\* other than i64::MIN, nano_to_timescale(-v, 90000) is
\* -nano_to_timescale(v, 90000).
C10_OrderAndSign ==
    (op = "nano_to_timescale" /\ y = Z(H264_TIMESCALE)) =>
        /\ ret.kind = "Value"
        /\ \A w \in NanoSamples :
            ZLe(x, w) => ZLe(ret.val, nano_to_timescale(w, y).val)
        /\ x # I64_MIN => nano_to_timescale(ZNeg(x), y).val = ZNeg(ret.val)

C10_Witness ==
    /\ op = "nano_to_timescale"
    /\ y = Z(H264_TIMESCALE)
    /\ x = Z(-99999)
    /\ ret = Value(Z(-8))

====
